---- MODULE Spec2Model ----
(***************************************************************************)
(* zk_watcher: a daemon thread (WatcherDaemon) that starts one Watcher     *)
(* thread per configured service.  Each Watcher polls once a second, runs  *)
(* its check command through Command.run (a worker thread that launches    *)
(* the child process, joined with a timeout) and reports the result to the *)
(* service registry.                                                       *)
(*                                                                         *)
(* Time is counted in whole seconds.  The steps of a Watcher's loop and of *)
(* the daemon's loop take no time; time passes only while every such       *)
(* thread is blocked in Event.wait(1) or Thread.join.  The Command worker, *)
(* the child process, the registry's answer and the callers of stop() and  *)
(* the interrupt of main are free to take as long as they like.            *)
(*                                                                         *)
(* Watchers share nothing but the registry handle.  Init gives the config   *)
(* file one section, so one Watcher runs; InitPair gives it two.           *)
(***************************************************************************)
EXTENDS Integers, Sequences, FiniteSets, TLC

\* ---- bounds of the model ------------------------------------------------
MaxRefresh == 2       \* 'refresh' of a section is drawn from 1..MaxRefresh
MaxTime == 5          \* seconds of wall-clock time explored
MaxExtStops == 1      \* direct calls of Watcher.stop() by an outside caller
\* Command.run's timeout argument.  Watcher.run passes 90 (seconds); the
\* model runs the same code with a shorter value so that an expiry, and
\* the checks that follow it, fall within MaxTime.
RunTimeout == 2

\* ---- program constants --------------------------------------------------
SIGTERM == 15         \* Popen.terminate() sends SIGTERM; returncode is -SIGTERM
TickSeconds == 1      \* self._event.wait(1) in Watcher.run

\* names a section of the config file can have
Services == {1, 2}
ExitCodes == {0, 1}   \* exit codes a check command ends with on its own
HostName == "host.example.com"   \* socket.getfqdn(), the default of 'name'
\* values of the options zookeeper_path, service_port and zookeeper_data
Paths == {"/services/prod-uswest1-mc", "/services/prod-uswest1-web"}
Ports == {"11211", "80"}
Payloads == {{}, {<<"foo", "bar">>}}

VARIABLES
  now,          \* time.time(), in whole seconds
  procAlive,    \* the Python process has not left main()
  \* WatcherDaemon
  sections,     \* self._config.sections()
  config,       \* self._config: the options of each section
  dpc,          \* position of WatcherDaemon.run
  didx,         \* index of the for loop WatcherDaemon.run is in
  devent,       \* WatcherDaemon._event
  watchers,     \* WatcherDaemon._watchers
  extStops,     \* direct calls of Watcher.stop() made from outside the daemon
  \* Watcher (one per service)
  wpc,          \* position of Watcher.run
  event,        \* Watcher._event
  refresh,      \* Watcher._refresh
  fullpath,     \* Watcher._fullpath
  data,         \* Watcher._data
  last_checked, \* local last_checked of Watcher.run
  waitStart,    \* when the current _event.wait(1) began
  \* Command (one per check)
  process,      \* Command._process: "None" or "Popen"
  returncode,   \* Command._process.returncode: <<>> (None) or <<code>>
  worker,       \* the thread running target()
  joinStart,    \* when thread.join(timeout) began
  \* the child process of the check
  child,        \* "none", "running", "exited" (zombie), "reaped"
  exitCode,     \* the status the child ended with
  termSent,     \* SIGTERM has been delivered to the child
  willExit,     \* the child ends at some point (on its own or on SIGTERM)
  \* the service registry
  registry,     \* the registry: path -> the state and data last set for it
  \* bookkeeping for the properties
  hist

vars == <<now, procAlive, sections, config, dpc, didx, devent, watchers,
          extStops,
          wpc, event, refresh, fullpath, data, last_checked, waitStart,
          process, returncode, worker, joinStart,
          child, exitCode, termSent, willExit, registry, hist>>

daemonVars == <<sections, config, dpc, didx, devent, watchers>>
extVars == <<extStops>>
loopVars == <<wpc, event, refresh, fullpath, data, last_checked, waitStart>>
commandVars == <<process, returncode, worker, joinStart>>
childVars == <<child, exitCode, termSent, willExit>>

\* time.time() at the moment the threads start: the clock counts seconds
\* since 1970, so it is far above every refresh interval.
Epoch == 1000

\* (variant: last_checked starts as the time the thread starts)
NeverChecked_Now == Epoch

\* last_checked = 0 at the start of Watcher.run
NeverChecked == 0

CheckingPcs == {"join", "alive", "join2", "ret"}

\* the sections a config file has
Configured(secs) == {secs[i] : i \in 1..Len(secs)}

\* hist[w]: what has happened to Watcher w so far
HistInit ==
  [checks |-> 0,          \* checks started (Command.run called)
   checkRegs |-> 0,       \* registry calls made by checks
   teardowns |-> 0,       \* registry calls made by stop()
   stopCalls |-> 0,       \* calls of stop() begun
   dStops |-> 0,          \* of which by WatcherDaemon.run
   lastReg |-> "none",    \* last registry call: "check_up", "check_down", "teardown"
   lastFlag |-> FALSE,    \* state passed by the last check
   lastKey |-> <<>>,      \* path passed by the last registry call
   lastData |-> {},       \* data passed by the last registry call
   regAt |-> -1,          \* when the last registry call of a check was made
   timedOut |-> FALSE,    \* join(timeout) of the current/last check expired
   unfinished |-> FALSE,  \* ... and the child was running at that moment
   late |-> FALSE,        \* some Command.run has lasted longer than its timeout
   live |-> 0,            \* child processes launched and not yet reaped
   startedAt |-> -1,      \* when the Watcher thread started
   stopAt |-> -1,         \* when stop() was first called
   idleAtStop |-> FALSE,  \* no check was in flight at that moment
   startedAfterStop |-> 0] \* checks started with the stop flag already set

\* the path a Watcher registers: '%s/%s:%s' % (path, name, service_port)
FullPath(path, name, service_port) == <<path, "/", name, ":", service_port>>

\* the options a section can have
Options ==
  [zookeeper_path : Paths, service_port : Ports, zookeeper_data : Payloads]

\* the section of the module's docstring
MemcacheSection ==
  [zookeeper_path |-> "/services/prod-uswest1-mc", service_port |-> "11211",
   zookeeper_data |-> {<<"foo", "bar">>}]

\* a second section, for another service of the same host
WebSections ==
  {o \in Options : /\ o.zookeeper_path # MemcacheSection.zookeeper_path
                   /\ o.service_port # MemcacheSection.service_port}

\* the threads before WatcherDaemon.run has taken a step, at time t0, with
\* the config file's sections secs
Start(secs, t0) ==
  /\ now = t0
  /\ procAlive = TRUE
  /\ sections = secs
  /\ dpc = "construct" /\ didx = 1 /\ devent = FALSE
  /\ watchers = <<>>
  /\ extStops = 0
  /\ wpc = [w \in Services |-> "unborn"]
  /\ event = [w \in Services |-> FALSE]
  /\ fullpath = [w \in Services |-> <<>>]
  /\ data = [w \in Services |-> {}]
  /\ last_checked = [w \in Services |-> NeverChecked]
  /\ waitStart = [w \in Services |-> Epoch]
  /\ process = [w \in Services |-> "None"]
  /\ returncode = [w \in Services |-> <<>>]
  /\ worker = [w \in Services |-> "none"]
  /\ joinStart = [w \in Services |-> Epoch]
  /\ child = [w \in Services |-> "none"]
  /\ exitCode = [w \in Services |-> 0]
  /\ termSent = [w \in Services |-> FALSE]
  /\ willExit = [w \in Services |-> TRUE]
  /\ registry = <<>>
  /\ hist = [w \in Services |-> HistInit]

Init ==
  /\ Start(<<1>>, Epoch)
  /\ config = [s \in {1} |-> MemcacheSection]
  /\ refresh \in {f \in [Services -> 1..MaxRefresh] :
                    \A w \in Services \ Configured(sections) : f[w] = 1}

\* two sections.  The two Watchers are followed through their first tick:
\* the clock starts one tick before the end of the time explored.
InitPair ==
  /\ Start(<<1, 2>>, Epoch + MaxTime - TickSeconds)
  /\ \E o \in WebSections : config = (1 :> MemcacheSection) @@ (2 :> o)
  /\ refresh = [w \in Services |-> 1]

\* ---- the registry ---------------------------------------------------------
\* ServiceRegistry.set(path, data, state): records the state under the path,
\* or raises.  ok says which.
RegistrySet(path, dat, state, ok) ==
  IF ok THEN (path :> [state |-> state, data |-> dat]) @@ registry
        ELSE registry

\* ---- Command.run ------------------------------------------------------------
\* (variant: a launch failure is returned as 0)
CommandResult_LaunchOk(w) ==
  IF process[w] # "None" THEN returncode[w] ELSE <<0>>

\* the value Command.run returns: the child's return code, or 1 when no
\* process object was recorded
CommandResult(w) ==
  IF process[w] # "None" THEN returncode[w] ELSE <<1>>

\* thread.is_alive()
IsAlive(w) == worker[w] # "done"

\* (variant: the join is also ended by a stop() of the Watcher)
JoinOver_OrStopped(w) ==
  ~IsAlive(w) \/ now - joinStart[w] >= RunTimeout \/ event[w]

\* thread.join(timeout) returns: the worker has finished or the timeout is over
JoinOver(w) == ~IsAlive(w) \/ now - joinStart[w] >= RunTimeout

\* (variant: after terminate() the worker is waited for with the timeout again)
Join2Over_Timeout(w) == ~IsAlive(w) \/ now - joinStart[w] >= 2 * RunTimeout

\* (variant: after terminate() the worker is not waited for)
Join2Over_NoWait(w) == TRUE

\* thread.join() returns: the worker has finished
Join2Over(w) == ~IsAlive(w)

\* target(): Popen(...) forks the child, or raises OSError
WorkerSpawn(w) ==
  /\ procAlive /\ worker[w] = "init"
  /\ \/ /\ worker' = [worker EXCEPT ![w] = "done"]      \* except OSError: return 1
        /\ UNCHANGED <<childVars, hist>>
     \/ /\ worker' = [worker EXCEPT ![w] = "spawned"]
        /\ child' = [child EXCEPT ![w] = "running"]
        /\ \E b \in BOOLEAN : willExit' = [willExit EXCEPT ![w] = b]
        /\ hist' = [hist EXCEPT ![w] = [@ EXCEPT !.live = @ + 1]]
        /\ UNCHANGED <<exitCode, termSent>>
  /\ UNCHANGED <<now, procAlive, daemonVars, extVars, loopVars,
                 process, returncode, joinStart, registry>>

\* target(): self._process = <the Popen object>
WorkerRecord(w) ==
  /\ procAlive /\ worker[w] = "spawned"
  /\ process' = [process EXCEPT ![w] = "Popen"]
  /\ worker' = [worker EXCEPT ![w] = "comm"]
  /\ UNCHANGED <<now, procAlive, daemonVars, extVars, loopVars,
                 returncode, joinStart, childVars, registry, hist>>

\* the statuses a running child can end with
EndCodes(w) == ExitCodes \cup (IF termSent[w] THEN {-SIGTERM} ELSE {})

\* the child process ends: on its own, in its SIGTERM handler, or killed by
\* SIGTERM
ChildExit(w) ==
  /\ procAlive /\ child[w] = "running" /\ willExit[w]
  /\ \E c \in EndCodes(w) : exitCode' = [exitCode EXCEPT ![w] = c]
  /\ child' = [child EXCEPT ![w] = "exited"]
  /\ UNCHANGED <<now, procAlive, daemonVars, extVars, loopVars, commandVars,
                 termSent, willExit, registry, hist>>

\* target(): self._process.communicate() returns once the child has ended,
\* having reaped it and set returncode
WorkerReap(w) ==
  /\ procAlive /\ worker[w] = "comm" /\ child[w] = "exited"
  /\ returncode' = [returncode EXCEPT ![w] = <<exitCode[w]>>]
  /\ child' = [child EXCEPT ![w] = "reaped"]
  /\ worker' = [worker EXCEPT ![w] = "done"]
  /\ hist' = [hist EXCEPT ![w] = [@ EXCEPT !.live = @ - 1]]
  /\ UNCHANGED <<now, procAlive, daemonVars, extVars, loopVars,
                 process, joinStart, exitCode, termSent, willExit, registry>>

\* thread.join(timeout) returns
JoinReturn(w) ==
  /\ procAlive /\ wpc[w] = "join" /\ JoinOver(w)
  /\ wpc' = [wpc EXCEPT ![w] = "alive"]
  /\ hist' = [hist EXCEPT ![w] = [@ EXCEPT !.timedOut = IsAlive(w),
                         !.unfinished = IsAlive(w) /\ child[w] = "running"]]
  /\ UNCHANGED <<now, procAlive, daemonVars, extVars,
                 event, refresh, fullpath, data, last_checked, waitStart,
                 commandVars, childVars, registry>>

\* self._process.terminate() inside try/except: SIGTERM reaches the child
\* when the process object is recorded and the kill succeeds
Terminate(w) ==
  \/ /\ process[w] # "None" /\ child[w] = "running"
     /\ termSent' = [termSent EXCEPT ![w] = TRUE]
  \/ UNCHANGED termSent                                  \* except: pass

\* if thread.is_alive(): terminate, then the unbounded join is entered
AliveTest(w) ==
  /\ procAlive /\ wpc[w] = "alive"
  /\ IF IsAlive(w)
       THEN /\ Terminate(w)
            /\ wpc' = [wpc EXCEPT ![w] = "join2"]
       ELSE /\ UNCHANGED termSent
            /\ wpc' = [wpc EXCEPT ![w] = "ret"]
  /\ UNCHANGED <<now, procAlive, daemonVars, extVars,
                 event, refresh, fullpath, data, last_checked, waitStart,
                 commandVars, child, exitCode, willExit, registry, hist>>

\* thread.join() returns
Join2Return(w) ==
  /\ procAlive /\ wpc[w] = "join2" /\ Join2Over(w)
  /\ wpc' = [wpc EXCEPT ![w] = "ret"]
  /\ UNCHANGED <<now, procAlive, daemonVars, extVars,
                 event, refresh, fullpath, data, last_checked, waitStart,
                 commandVars, childVars, registry, hist>>

\* ---- Watcher ----------------------------------------------------------------
\* (variant: the loop is also left when the last check reported a failure)
LoopCond_UntilFailure(w) == ~event[w] /\ hist[w].lastReg # "check_down"

\* while True and not self._event.is_set()
LoopCond(w) == ~event[w]

\* (variant: a check is due on every tick after the last one)
Due_EveryTick(w) == now - last_checked[w] >= TickSeconds

\* (variant: a check is also due when exactly the interval has passed)
Due_Inclusive(w) == now - last_checked[w] >= refresh[w]

\* (variant: the time of the last check is left out of the test)
Due_NoLastChecked(w) == now > refresh[w]

\* if time.time() - last_checked > self._refresh
Due(w) == now - last_checked[w] > refresh[w]

\* if ret == 0: update(state=True) else: update(state=False)
Healthy(ret) == ret = <<0>>

\* the loop condition is tested
LoopTest(w) ==
  /\ procAlive /\ wpc[w] = "loop"
  /\ wpc' = [wpc EXCEPT ![w] = IF LoopCond(w) THEN "due" ELSE "stopped"]
  /\ UNCHANGED <<now, procAlive, daemonVars, extVars,
                 event, refresh, fullpath, data, last_checked, waitStart,
                 commandVars, childVars, registry, hist>>

\* the due test; when it passes, a new Command is made and Command.run starts
\* its worker thread and joins it with the timeout
DueTest(w) ==
  /\ procAlive /\ wpc[w] = "due"
  /\ IF Due(w)
       THEN /\ wpc' = [wpc EXCEPT ![w] = "join"]
            /\ process' = [process EXCEPT ![w] = "None"]
            /\ returncode' = [returncode EXCEPT ![w] = <<>>]
            /\ worker' = [worker EXCEPT ![w] = "init"]
            /\ joinStart' = [joinStart EXCEPT ![w] = now]
            /\ child' = [child EXCEPT ![w] = "none"]
            /\ exitCode' = [exitCode EXCEPT ![w] = 0]
            /\ termSent' = [termSent EXCEPT ![w] = FALSE]
            /\ willExit' = [willExit EXCEPT ![w] = TRUE]
            /\ hist' = [hist EXCEPT ![w] =
                 [@ EXCEPT !.checks = @ + 1, !.timedOut = FALSE, !.unfinished = FALSE,
                           !.startedAfterStop = @ + (IF event[w] THEN 1 ELSE 0)]]
            /\ UNCHANGED waitStart
       ELSE /\ wpc' = [wpc EXCEPT ![w] = "wait"]
            /\ waitStart' = [waitStart EXCEPT ![w] = now]
            /\ UNCHANGED <<commandVars, childVars, hist>>
  /\ UNCHANGED <<now, procAlive, daemonVars, extVars,
                 event, refresh, fullpath, data, last_checked, registry>>

\* Watcher.update(state): one ServiceRegistry.set call; an exception is
\* logged and swallowed.  ok is what update returns.
Update(w, state, kind, h, ok) ==
  /\ registry' = RegistrySet(fullpath[w], data[w], state, ok)
  /\ hist' = [h EXCEPT ![w] =
       [@ EXCEPT !.lastReg = kind,
                 !.regAt = IF kind = "teardown" THEN @ ELSE now,
                 !.lastKey = fullpath[w], !.lastData = data[w],
                 !.checkRegs = @ + (IF kind = "teardown" THEN 0 ELSE 1),
                 !.teardowns = @ + (IF kind = "teardown" THEN 1 ELSE 0),
                 !.lastFlag = IF kind = "teardown" THEN @ ELSE state]]

\* (variant: last_checked is set only when the registry call succeeded)
LastChecked_IfUpdated(w, ok) == IF ok THEN now ELSE last_checked[w]

\* last_checked = time.time(), whatever update returned
LastChecked(w, ok) == now

\* Command.run returns; the result is reported and last_checked is set; the
\* loop goes to its _event.wait(1)
CheckReport(w) ==
  /\ procAlive /\ wpc[w] = "ret"
  /\ \E ok \in BOOLEAN :
       /\ LET state == Healthy(CommandResult(w))
          IN Update(w, state, IF state THEN "check_up" ELSE "check_down",
                    hist, ok)
       /\ last_checked' = [last_checked EXCEPT ![w] = LastChecked(w, ok)]
  /\ wpc' = [wpc EXCEPT ![w] = "wait"]
  /\ waitStart' = [waitStart EXCEPT ![w] = now]
  /\ UNCHANGED <<now, procAlive, daemonVars, extVars, event, refresh,
                 fullpath, data, commandVars, childVars>>

\* self._event.wait(1) returns: the event is set or the second is over
WaitOver(w) == event[w] \/ now - waitStart[w] >= TickSeconds

WaitReturn(w) ==
  /\ procAlive /\ wpc[w] = "wait" /\ WaitOver(w)
  /\ wpc' = [wpc EXCEPT ![w] = "loop"]
  /\ UNCHANGED <<now, procAlive, daemonVars, extVars,
                 event, refresh, fullpath, data, last_checked, waitStart,
                 commandVars, childVars, registry, hist>>

\* Watcher.stop(), first statement: self._event.set()
StopSet(w) == event' = [event EXCEPT ![w] = TRUE]

\* the history with a call of stop() on w added
StopCalled(w, byDaemon) ==
  [hist EXCEPT ![w] =
     [@ EXCEPT !.stopCalls = @ + 1,
               !.dStops = @ + (IF byDaemon THEN 1 ELSE 0),
               !.stopAt = IF @ < 0 THEN now ELSE @,
               !.idleAtStop = IF hist[w].stopCalls = 0
                                THEN wpc[w] \notin CheckingPcs ELSE @]]

\* Watcher.stop(), second statement: self.update(False)
StopUpdate(w, h) == \E ok \in BOOLEAN : Update(w, FALSE, "teardown", h, ok)

\* ---- WatcherDaemon ------------------------------------------------------------
\* for service in sections: w = Watcher(..., data={}, ...);
\* self._watchers.append(w).  Watcher.__init__ sets the fields and starts the
\* Watcher's thread.
Construct ==
  /\ procAlive /\ dpc = "construct"
  /\ LET service == sections[didx]
     IN /\ fullpath' = [fullpath EXCEPT ![service] =
             FullPath(config[service].zookeeper_path, HostName,
                      config[service].service_port)]
        /\ data' = [data EXCEPT ![service] = {}]
  /\ wpc' = [wpc EXCEPT ![sections[didx]] = "loop"]
  /\ hist' = [hist EXCEPT ![sections[didx]] = [@ EXCEPT !.startedAt = now]]
  /\ watchers' = Append(watchers, sections[didx])
  /\ didx' = didx + 1
  /\ dpc' = IF didx = Len(sections) THEN "wait" ELSE "construct"
  /\ UNCHANGED <<now, procAlive, sections, config, devent, extVars,
                 event, refresh, last_checked, waitStart,
                 commandVars, childVars, registry>>

\* while True and not self._event.is_set(): self._event.wait(1)
\* The loop is left once the event is set; a wait(1) that ends with the event
\* unset changes nothing and is no step of the model.
DaemonWait ==
  /\ procAlive /\ dpc = "wait" /\ devent
  /\ dpc' = IF watchers = <<>> THEN "done" ELSE "stopping"
  /\ didx' = 1
  /\ UNCHANGED <<now, procAlive, devent, watchers, sections, config, extVars, loopVars,
                 commandVars, childVars, registry, hist>>

\* for w in self._watchers: w.stop()  -- stop() sets the Watcher's event
DaemonStopSet ==
  /\ procAlive /\ dpc = "stopping"
  /\ StopSet(watchers[didx])
  /\ hist' = StopCalled(watchers[didx], TRUE)
  /\ dpc' = "instop"
  /\ UNCHANGED <<now, procAlive, didx, devent, watchers, sections, config,
                 extVars, wpc, refresh, fullpath, data, last_checked, waitStart,
                 commandVars, childVars, registry>>

\* (variant: the loop is left after the first Watcher)
AfterStop_First(i) == "done"

\* for w in self._watchers: the loop goes on to the next Watcher, or run ends
AfterStop(i) == IF i = Len(watchers) THEN "done" ELSE "stopping"

\* ... and then calls update(False)
DaemonStopUpdate ==
  /\ procAlive /\ dpc = "instop"
  /\ StopUpdate(watchers[didx], hist)
  /\ didx' = didx + 1
  /\ dpc' = AfterStop(didx)
  /\ UNCHANGED <<now, procAlive, devent, watchers, sections, config, extVars,
                 loopVars, commandVars, childVars>>

\* WatcherDaemon.stop(), called from outside the daemon thread
DaemonStop ==
  /\ procAlive
  /\ devent' = TRUE
  /\ UNCHANGED <<now, procAlive, dpc, didx, watchers, sections, config, extVars,
                 loopVars, commandVars, childVars, registry, hist>>

\* ---- callers outside the daemon -------------------------------------------------
\* Watcher.stop() called directly on a constructed Watcher: the event is set
\* and update(False) is called
ExtStop(w) ==
  /\ procAlive /\ extStops < MaxExtStops
  /\ wpc[w] # "unborn"
  /\ StopSet(w)
  /\ StopUpdate(w, StopCalled(w, FALSE))
  /\ extStops' = extStops + 1
  /\ UNCHANGED <<now, procAlive, daemonVars,
                 wpc, refresh, fullpath, data, last_checked, waitStart,
                 commandVars, childVars>>

\* main(): KeyboardInterrupt ends the sleep loop and main returns; every
\* thread is a daemon thread, so the interpreter exits without waiting
Interrupt ==
  /\ procAlive
  /\ procAlive' = FALSE
  /\ UNCHANGED <<now, daemonVars, extVars, loopVars, commandVars, childVars,
                 registry, hist>>

\* ---- time ----------------------------------------------------------------------
\* the Watcher's thread can take no step until time passes or another
\* thread acts
WatcherBlocked(w) ==
  \/ wpc[w] \in {"unborn", "stopped"}
  \/ wpc[w] = "wait" /\ ~WaitOver(w)
  \/ wpc[w] = "join" /\ ~JoinOver(w)
  \/ wpc[w] = "join2" /\ ~Join2Over(w)

DaemonBlocked ==
  \/ dpc = "done"
  \/ dpc = "wait" /\ ~devent

Tick ==
  /\ procAlive /\ now < Epoch + MaxTime
  /\ DaemonBlocked /\ \A w \in Services : WatcherBlocked(w)
  /\ now' = now + 1
  /\ hist' = [w \in Services |->
       [hist[w] EXCEPT !.late = @ \/ wpc[w] = "join2"]]
  /\ UNCHANGED <<procAlive, daemonVars, extVars, loopVars, commandVars,
                 childVars, registry>>

Next ==
  \/ Construct \/ DaemonWait \/ DaemonStopSet \/ DaemonStopUpdate
  \/ DaemonStop \/ Tick
  \/ \E w \in Services :
       \/ LoopTest(w) \/ DueTest(w) \/ JoinReturn(w) \/ AliveTest(w)
       \/ Join2Return(w) \/ CheckReport(w) \/ WaitReturn(w)
       \/ WorkerSpawn(w) \/ WorkerRecord(w) \/ ChildExit(w) \/ WorkerReap(w)
       \/ ExtStop(w)

\* the daemon for as long as the process runs
Spec == Init /\ [][Next]_vars

\* the daemon and the end of the process
NextMain == Next \/ Interrupt

SpecMain == Init /\ [][NextMain]_vars

\* two Watchers in their first tick, stopped by nobody but the daemon.  No
\* join(timeout) expires within a tick (RunTimeout is longer), so no Command.run
\* comes to its unbounded join.
NextPair ==
  \/ Construct \/ DaemonWait \/ DaemonStopSet \/ DaemonStopUpdate
  \/ DaemonStop \/ Tick
  \/ \E w \in Services :
       \/ LoopTest(w) \/ DueTest(w) \/ JoinReturn(w) \/ AliveTest(w)
       \/ CheckReport(w) \/ WaitReturn(w)
       \/ WorkerSpawn(w) \/ WorkerRecord(w) \/ ChildExit(w) \/ WorkerReap(w)

\* WatcherDaemon.run is a thread of its own: whenever it can take its next
\* step (its wait(1) ends within a second of the event being set, and every
\* registry call returns), it takes it
DaemonFairness ==
  /\ WF_vars(Construct) /\ WF_vars(DaemonWait)
  /\ WF_vars(DaemonStopSet) /\ WF_vars(DaemonStopUpdate)

SpecPair == InitPair /\ [][NextPair]_vars /\ DaemonFairness

\* ---- properties -------------------------------------------------------------------
Born(w) == wpc[w] # "unborn"

\* the Watcher is inside Command.run or about to report its result
Checking(w) == wpc[w] \in CheckingPcs

\* a call of stop() on w has set the event and not yet called update(False)
StopInProgress(w) == dpc = "instop" /\ watchers[didx] = w

\* the child of the last check was launched and ended with status 0
RanAndExitedZero(w) == child[w] \in {"exited", "reaped"} /\ exitCode[w] = 0

\* C1: the registry call made by stop() is the last call made for the
\* Watcher's path: once stop() has reported, no check reports after it.
C1_TeardownIsLast ==
  \A w \in Services :
    hist[w].teardowns > 0 => hist[w].lastReg = "teardown"

\* C2: the process exits only when every Watcher has been stopped, has left
\* its loop and has made its teardown call.
C2_ExitAfterShutdown ==
  ~procAlive =>
    \A i \in 1..Len(watchers) :
      /\ hist[watchers[i]].stopCalls >= 1
      /\ wpc[watchers[i]] = "stopped"
      /\ hist[watchers[i]].teardowns >= 1

\* C3: every finished check has made exactly one registry call, and its
\* state is true exactly when the child was launched and ended with status 0.
C3_CheckReportsExitStatus ==
  \A w \in Services :
    /\ hist[w].checkRegs = hist[w].checks - (IF Checking(w) THEN 1 ELSE 0)
    /\ (hist[w].checks > 0 /\ ~Checking(w)) =>
         (hist[w].lastFlag <=> RanAndExitedZero(w))

C3_Witness ==
  \E w \in Services :
    /\ wpc[w] = "wait" /\ hist[w].checks >= 2
    /\ hist[w].lastReg = "check_up" /\ RanAndExitedZero(w)

\* C4: a check whose child had not ended when the timeout expired reports
\* the state false.
C4_TimeoutIsUnhealthy ==
  \A w \in Services :
    (hist[w].unfinished /\ hist[w].checks > 0 /\ ~Checking(w)) => ~hist[w].lastFlag

\* C5: a Watcher has at most one child process that is not reaped, and has
\* one only while it is inside Command.run.
C5_ChildOnlyWhileChecking ==
  \A w \in Services :
    /\ hist[w].live <= 1
    /\ (hist[w].live > 0 \/ child[w] \in {"running", "exited"})
         => wpc[w] \in {"join", "alive", "join2"}

C5_Witness ==
  \E w \in Services :
    /\ wpc[w] = "wait" /\ hist[w].timedOut /\ termSent[w]
    /\ child[w] = "reaped" /\ hist[w].live = 0

\* C6: a Command.run whose timeout has expired always returns: in its
\* unbounded join, the worker or the child can still take the step that ends it.
C6_RunnerReturnsAfterTimeout ==
  \A w \in Services :
    (procAlive /\ wpc[w] = "join2") =>
      ENABLED (\/ Join2Return(w) \/ WorkerSpawn(w) \/ WorkerRecord(w)
               \/ ChildExit(w) \/ WorkerReap(w))

\* C7: a Watcher on which stop() has been called (and has returned) has had
\* exactly one teardown registry call, however often stop() was called.
C7_ExactlyOneTeardown ==
  \A w \in Services :
    (hist[w].stopCalls >= 1 /\ ~StopInProgress(w)) => hist[w].teardowns = 1

\* C8: no check is started once stop() has been called on the Watcher.
C8_NoCheckAfterStop ==
  \A w \in Services : hist[w].startedAfterStop = 0

\* C9: a Watcher that was idle when stop() was called has left its loop
\* within one tick of the call.
C9_StoppedWithinOneTick ==
  \A w \in Services :
    (hist[w].stopAt >= 0 /\ hist[w].idleAtStop
       /\ now - hist[w].stopAt > TickSeconds) => wpc[w] = "stopped"

\* the checks a running Watcher has started, and the time it has run
RunTime(w) == now - hist[w].startedAt
Running(w) == Born(w) /\ hist[w].stopAt < 0

\* C10 as stated: over a run of T seconds, with no check lasting longer than
\* the timeout, the number of checks started is floor(T/R) - 1, floor(T/R)
\* or floor(T/R) + 1.
C10_ChecksPerInterval ==
  \A w \in Services :
    (Running(w) /\ ~hist[w].late) =>
      /\ hist[w].checks >= (RunTime(w) \div refresh[w]) - 1
      /\ hist[w].checks <= (RunTime(w) \div refresh[w]) + 1

\* C10 as amended: over a run of T seconds the number of checks started is at
\* most floor(T/R) + 1, and at least 1 once a second has passed.
C10_AtMostOnePerInterval ==
  \A w \in Services :
    Running(w) =>
      /\ hist[w].checks <= (RunTime(w) \div refresh[w]) + 1
      /\ RunTime(w) >= TickSeconds => hist[w].checks >= 1

C10_Witness ==
  \E w \in Services :
    /\ Running(w) /\ hist[w].checks >= 3
    /\ hist[w].checks < (RunTime(w) \div refresh[w]) - 1

\* C11: a Watcher's thread has left its loop only if stop() was called on it:
\* no result of a check (launch failure, timeout, non-zero exit) and no
\* exception of the registry call ends the thread; the loop goes on to its
\* wait and to later checks.
C11_LeavesLoopOnlyOnStop ==
  \A w \in Services :
    wpc[w] = "stopped" => (event[w] /\ hist[w].stopCalls >= 1)

\* a later check is under way although every check so far reported a
\* failure and every registry call raised
C11_Witness ==
  \E w \in Services :
    /\ ~event[w] /\ wpc[w] = "join" /\ hist[w].checks >= 2
    /\ hist[w].lastReg = "check_down" /\ fullpath[w] \notin DOMAIN registry

\* C12: every registry call of a Watcher passes the Watcher's own path,
\* zookeeper_path/host:service_port of its section, which is the path of no
\* other Watcher, and the zookeeper_data configured for its section.
C12_OwnKeyAndPayload ==
  \A w \in Services :
    hist[w].lastReg # "none" =>
      /\ hist[w].lastKey = FullPath(config[w].zookeeper_path, HostName,
                                    config[w].service_port)
      /\ \A v \in Services \ {w} : Born(v) => hist[w].lastKey # fullpath[v]
      /\ hist[w].lastData = config[w].zookeeper_data

\* the Watcher has made its due test in this second and started no check
Declined(w) ==
  wpc[w] = "wait" /\ waitStart[w] = now /\ last_checked[w] # now

\* C13 as stated: at its due test a Watcher starts a check if and only if
\* at least refresh seconds have passed since the last check was completed;
\* with exactly refresh seconds passed a check is started.
C13_DueAtInterval ==
  \A w \in Services :
    /\ Checking(w) => joinStart[w] - last_checked[w] >= refresh[w]
    /\ Declined(w) => now - last_checked[w] < refresh[w]

\* C13 as amended: at its due test a Watcher starts a check if and only if
\* more than refresh seconds have passed since the last check was completed;
\* with exactly refresh seconds passed no check is started.
C13_DueAfterInterval ==
  \A w \in Services :
    /\ Checking(w) => joinStart[w] - last_checked[w] > refresh[w]
    /\ Declined(w) => now - last_checked[w] <= refresh[w]

\* the due test was made exactly refresh seconds after the last check, and
\* no check was started
C13_Witness ==
  \E w \in Services :
    /\ Declined(w) /\ ~event[w] /\ hist[w].checks >= 1
    /\ now - last_checked[w] = refresh[w]

\* C14: a check other than the first is started no less than refresh
\* seconds after last_checked was set at the end of the check before it.
C14_MinimumGap ==
  \A w \in Services :
    (Checking(w) /\ hist[w].checks >= 2) =>
      joinStart[w] - last_checked[w] >= refresh[w]

\* a second check under way, started as early as the due test allows, for an
\* interval of more than one tick
C14_Witness ==
  \E w \in Services :
    /\ Checking(w) /\ hist[w].checks >= 2 /\ refresh[w] > TickSeconds
    /\ joinStart[w] - last_checked[w] = refresh[w] + 1

\* the Watcher's thread is inside Command.run
InCommandRun(w) == wpc[w] \in {"join", "alive", "join2"}

\* C15: the checks of a Watcher are sequential: the worker of a check runs
\* only while the Watcher's thread is inside Command.run, so the thread makes
\* no due test and no registry call while a check is in flight, and at most
\* one check has been started and not yet reported.
C15_ChecksSequential ==
  \A w \in Services :
    /\ (worker[w] # "none" /\ IsAlive(w)) => InCommandRun(w)
    /\ hist[w].checks - hist[w].checkRegs \in {0, 1}
    /\ hist[w].checks # hist[w].checkRegs => Checking(w)

\* a second check past its timeout, its worker still waiting for the child
C15_Witness ==
  \E w \in Services :
    /\ wpc[w] = "join2" /\ worker[w] = "comm" /\ child[w] = "running"
    /\ hist[w].checks >= 2 /\ hist[w].checkRegs = hist[w].checks - 1

\* C16: once a check has reported, last_checked is the time of that check's
\* registry call, whether the call succeeded or raised; and the registry
\* call of the next check is made no sooner than refresh seconds after it.
C16_NoEarlyRetry ==
  \A w \in Services :
    hist[w].checkRegs >= 1 =>
      /\ last_checked[w] = hist[w].regAt
      /\ wpc[w] = "ret" => now - hist[w].regAt >= refresh[w]

\* the registry call of a later check is about to be made, after every call
\* so far has raised
C16_Witness ==
  \E w \in Services :
    /\ wpc[w] = "ret" /\ ~event[w] /\ hist[w].checkRegs >= 1
    /\ hist[w].teardowns = 0 /\ fullpath[w] \notin DOMAIN registry

\* C17: SIGTERM is sent to the child of a check only after that check's own
\* timeout has expired with the worker still alive; a stop() of the Watcher
\* or of the daemon sends none.
C17_StopNeverTerminates ==
  \A w \in Services :
    termSent[w] => (hist[w].timedOut /\ now - joinStart[w] >= RunTimeout)

\* stop() has returned while the child of the check in flight runs on
C17_Witness ==
  \E w \in Services :
    /\ event[w] /\ hist[w].teardowns >= 1 /\ hist[w].dStops >= 1
    /\ wpc[w] = "join" /\ child[w] = "running" /\ ~termSent[w]

\* every section has its Watcher, and the daemon has called stop() once on
\* each of them
AllStoppedOnce ==
  /\ dpc = "done" /\ Len(watchers) = Len(sections)
  /\ \A i \in 1..Len(watchers) :
       /\ hist[watchers[i]].stopCalls = 1 /\ hist[watchers[i]].dStops = 1
       /\ event[watchers[i]]

\* C18: once WatcherDaemon.stop() has been called, whether before, while or
\* after the Watchers are constructed, the daemon eventually has called
\* stop() on every Watcher it constructed, and on none more than once.
C18_StopReachesEveryWatcher ==
  /\ [](\A w \in Services : hist[w].dStops <= 1)
  /\ devent ~> AllStoppedOnce

\* both Watchers stopped by the daemon, the second before it started a check
C18_Witness ==
  /\ AllStoppedOnce /\ Len(watchers) = 2
  /\ hist[watchers[1]].checks >= 1 /\ hist[watchers[2]].checks = 0
  /\ wpc[watchers[2]] = "stopped"

\* C19: whenever Command.run goes from its expired join(timeout) to its
\* unbounded join while the child runs, its terminate() has had the child's
\* process object to send SIGTERM to, also when the timeout expired before
\* the worker recorded that object.
C19_TerminateReachesChild ==
  [][\A w \in Services :
       (wpc[w] = "alive" /\ wpc'[w] = "join2" /\ child[w] = "running")
         => process[w] = "Popen"]_vars

\* C20: a Watcher starts its first check in its first loop iteration, at the
\* time its thread starts, whatever its refresh interval, unless stop() was
\* called before that iteration.
C20_FirstCheckAtStart ==
  \A w \in Services :
    Born(w) =>
      /\ hist[w].checks = 0 =>
            \/ now = hist[w].startedAt /\ wpc[w] \in {"loop", "due"}
            \/ wpc[w] = "stopped" /\ hist[w].stopAt = hist[w].startedAt
      /\ hist[w].checks = 1 => joinStart[w] = hist[w].startedAt

\* the first registry call has been made less than a refresh interval after
\* the Watcher's start
C20_Witness ==
  \E w \in Services :
    /\ ~event[w] /\ hist[w].checks = 1 /\ hist[w].checkRegs = 1
    /\ hist[w].regAt > hist[w].startedAt
    /\ hist[w].regAt - hist[w].startedAt < refresh[w]
====
